---- MODULE Spec2Model ----
(***************************************************************************)
(* Model of the retrieval pipeline of rag-qa-system:                       *)
(*   app/core/vector_store.py       VectorStoreService over a Qdrant DB    *)
(*   app/core/document_processor.py DocumentProcessor.load_from_upload     *)
(*   app/core/embeddings.py         EmbeddingService                       *)
(*   app/config.py                  the settings the three read            *)
(* Remote calls (Qdrant, OpenAI) are the points where a call can fail and  *)
(* where concurrent callers interleave; each one takes a fault input.      *)
(***************************************************************************)
EXTENDS Integers, Sequences, FiniteSets, TLC

VARIABLES
    db,            \* Qdrant: collection name -> [exists, size, distance, points]
    pc,            \* per service slot: "none" | "probe" | "create" | "ready"
    cons,          \* per service slot: the record of its latest construction
    nextUuid,      \* number of identifiers uuid4 has handed out
    last,          \* the latest finished public call and what it did
    issued,        \* identifiers returned by successful add_documents calls
    provisioned,   \* name -> a construction returned and no delete call since
    up,            \* load_from_upload: the latest call and what it did
    tmpfiles,      \* temporary files present on disk
    nextTmp,       \* number of temporary files created so far
    em,            \* EmbeddingService: the latest call and what it did
    emClient,      \* get_embeddings' lru_cache: the client, once built
    emCalls        \* number of requests sent to the embedding API

storeVars == <<db, pc, cons, nextUuid, last, issued, provisioned>>
uploadVars == <<up, tmpfiles, nextTmp>>
embedVars == <<em, emClient, emCalls>>
localVars == <<up, tmpfiles, nextTmp, em, emClient, emCalls>>
vars == <<db, pc, cons, nextUuid, last, issued, provisioned,
          up, tmpfiles, nextTmp, em, emClient, emCalls>>

----------------------------------------------------------------------------
(* Bounds of the model *)

MaxUuid == 2
MaxBatch == 2
MaxTmp == 3
MaxDocs == 2
MaxCalls == 6

(* Settings (app/config.py) and the literals of _ensure_collection *)

qdrant_collection_name == "rag_qa_collection"
retrieval_k == 4
VectorSize == 1536
DistanceCosine == "Cosine"

----------------------------------------------------------------------------
(* Values *)

Svc == {"s1", "s2"}
Caller == "s1"
OtherName == "other"
Names == {qdrant_collection_name, OtherName}
NameArgs == {"", OtherName}          \* "" stands for None
Texts == {"t1", "t2"}
None == "None"

\* A fault injected into one remote call: "http" is an UnexpectedResponse with
\* a status other than 404/409 (401, 403, 500); "net" is any other exception
\* (connection refused, timeout), which qdrant_client does not raise as
\* UnexpectedResponse.
Fault == {"none", "http", "net"}

\* The embedding service fails with an exception of its own library.
EmbedFault == {"none", "net"}

\* What a remote call answers: "ok", or the exception it raises.
\* "notfound" and "conflict" are UnexpectedResponse with status 404 and 409.
IsUnexpectedResponse(r) == r \in {"notfound", "conflict", "http"}
IsException(r) == r # "ok"

Batches == UNION {[1..n -> Texts] : n \in 0..MaxBatch}

Range(f) == {f[i] : i \in DOMAIN f}

AbsentCollection == [exists |-> FALSE, size |-> 0, distance |-> None, points |-> {}]

----------------------------------------------------------------------------
(* The vector database *)

GetCollectionResp(name, f) ==
    IF f # "none" THEN f
    ELSE IF db[name].exists THEN "ok" ELSE "notfound"

\* dup is how the database treats the creation of a collection that exists:
\* "reject" (409) or "noop".
CreateCollectionResp(name, f, dup) ==
    IF f # "none" THEN f
    ELSE IF db[name].exists /\ dup = "reject" THEN "conflict" ELSE "ok"

CreateCollectionEffect(name, r, size, distance) ==
    IF r = "ok" /\ ~db[name].exists
    THEN [db EXCEPT ![name] = [exists |-> TRUE, size |-> size,
                               distance |-> distance, points |-> {}]]
    ELSE db

\* missing is how the database treats the deletion of a collection that does
\* not exist: "error" (404) or "false" (it answers False).
DeleteCollectionResp(name, f, missing) ==
    IF f # "none" THEN f
    ELSE IF ~db[name].exists /\ missing = "error" THEN "notfound" ELSE "ok"

DeleteCollectionEffect(name, r) ==
    IF r = "ok" THEN [db EXCEPT ![name] = AbsentCollection] ELSE db

PointsResp(name, f) ==
    IF f # "none" THEN f
    ELSE IF db[name].exists THEN "ok" ELSE "notfound"

UpsertEffect(name, r, pts) ==
    IF r = "ok"
    THEN [db EXCEPT ![name].points =
            {p \in @ : \A q \in pts : q.id # p.id} \cup pts]
    ELSE db

RemoteResp(f) == IF f # "none" THEN f ELSE "ok"

\* The embedding of a text: a one-hot vector over the texts of the model.
Embed(t) == [d \in Texts |-> IF d = t THEN 1 ELSE 0]

Score(v, w) == IF v = w THEN 1 ELSE 0

\* The sets of k nearest points the database may answer (ties in any order).
TopK(points, qv, k) ==
    LET n == IF Cardinality(points) < k THEN Cardinality(points) ELSE k
    IN {S \in SUBSET points :
          /\ Cardinality(S) = n
          /\ \A p \in S : \A q \in points \ S :
                Score(p.vector, qv) >= Score(q.vector, qv)}

----------------------------------------------------------------------------
(* VectorStoreService *)

CollectionNameOf(arg) == IF arg = "" THEN qdrant_collection_name ELSE arg

KOf(k) == IF k = 0 THEN retrieval_k ELSE k

Call(c, r) == [call |-> c, resp |-> r]

Returned(s, op, arg, value, calls, minted, changed) ==
    [svc |-> s, op |-> op, arg |-> arg, result |-> "returned", value |-> value,
     error |-> None, calls |-> calls, minted |-> minted, changed |-> changed]

Raised(s, op, arg, error, calls, minted, changed) ==
    [svc |-> s, op |-> op, arg |-> arg, result |-> "raised", value |-> None,
     error |-> error, calls |-> calls, minted |-> minted, changed |-> changed]

NoCall == [svc |-> None, op |-> None, arg |-> None, result |-> None, value |-> None,
           error |-> None, calls |-> <<>>, minted |-> 0, changed |-> FALSE]

NoCons == [name |-> None, probe |-> None, creates |-> 0, size |-> 0,
           distance |-> None, outcome |-> None, startAbsent |-> FALSE,
           second |-> FALSE, faulted |-> FALSE, disturbed |-> FALSE]

\* __init__ up to the call of _ensure_collection.
Construct(s, arg) ==
    /\ pc[s] \in {"none", "ready"}
    /\ LET name == CollectionNameOf(arg) IN
       cons' = [cons EXCEPT ![s] =
                  [NoCons EXCEPT !.name = name, !.outcome = "running",
                                 !.startAbsent = ~db[name].exists,
                                 !.second = provisioned[name]]]
    /\ pc' = [pc EXCEPT ![s] = "probe"]
    /\ UNCHANGED <<db, nextUuid, last, issued, provisioned, localVars>>

\* What the probe of _ensure_collection found.
ProbeResult(r) ==
    CASE r = "ok" -> "Exists"
      [] r = "notfound" -> "Absent"
      [] r = "http" -> "HttpError"
      [] OTHER -> "NetError"

\* Variants of NeedsCreate: a constructor that creates without looking at the
\* probe, and one that never creates.
NeedsCreateUnconditional(r) == TRUE
NeedsCreateNever(r) == FALSE

\* except UnexpectedResponse: the branch that creates the collection.
NeedsCreate(r) == IsUnexpectedResponse(r)

\* _ensure_collection: client.get_collection; when it answers, the rest of
\* __init__ is local and the construction returns.
Probe(s, f) ==
    /\ pc[s] = "probe"
    /\ LET r == GetCollectionResp(cons[s].name, f) IN
       /\ cons' = [cons EXCEPT ![s].probe = ProbeResult(r),
                               ![s].faulted = @ \/ f # "none",
                               ![s].outcome =
                                   IF NeedsCreate(r) THEN "running"
                                   ELSE IF r = "ok" THEN "returned" ELSE "raised"]
       /\ pc' = [pc EXCEPT ![s] =
                   IF NeedsCreate(r) THEN "create"
                   ELSE IF r = "ok" THEN "ready" ELSE "none"]
       /\ provisioned' =
            IF ~NeedsCreate(r) /\ r = "ok"
            THEN [provisioned EXCEPT ![cons[s].name] = TRUE] ELSE provisioned
    /\ UNCHANGED <<db, nextUuid, last, issued, localVars>>

\* _ensure_collection: client.create_collection, then the rest of __init__.
Create(s, f, dup) ==
    /\ pc[s] = "create"
    /\ LET r == CreateCollectionResp(cons[s].name, f, dup) IN
       /\ db' = CreateCollectionEffect(cons[s].name, r, VectorSize, DistanceCosine)
       /\ cons' = [cons EXCEPT ![s].creates = @ + 1,
                               ![s].size = VectorSize,
                               ![s].distance = DistanceCosine,
                               ![s].faulted = @ \/ f # "none",
                               ![s].outcome = IF r = "ok" THEN "returned" ELSE "raised"]
       /\ pc' = [pc EXCEPT ![s] = IF r = "ok" THEN "ready" ELSE "none"]
       /\ provisioned' =
            IF r = "ok" THEN [provisioned EXCEPT ![cons[s].name] = TRUE]
            ELSE provisioned
    /\ UNCHANGED <<nextUuid, last, issued, localVars>>

\* Variant of NoDocuments: the empty-list guard left out.
NoDocumentsNever(documents) == FALSE

\* if not documents
NoDocuments(documents) == documents = <<>>

\* uuid4: an identifier no earlier call of uuid4 produced.
Uuid4(n) == n + 1

\* Variant of MintIds: identifiers derived from the chunk's content.
ContentHash(text) == IF text = "t1" THEN 1 ELSE 2
MintIdsFromContent(n, documents) == [i \in 1..Len(documents) |-> ContentHash(documents[i])]

\* ids = [str(uuid4()) for _ in documents]
MintIds(n, documents) == [i \in 1..Len(documents) |-> Uuid4(n + i - 1)]

PointsOf(ids, documents) ==
    {[id |-> ids[i], vector |-> Embed(documents[i]), payload |-> documents[i]] :
        i \in 1..Len(documents)}

\* add_documents; vector_store.add_documents embeds the texts in one call and
\* upserts the points in another.
AddDocuments(s, documents, fe, fu) ==
    /\ pc[s] = "ready"
    /\ IF NoDocuments(documents)
       THEN /\ last' = Returned(s, "add_documents", documents, <<>>, <<>>, 0, FALSE)
            /\ UNCHANGED <<db, nextUuid, issued>>
       ELSE /\ nextUuid + Len(documents) <= MaxUuid
            /\ fe # "none" => fu = "none"    \* no upsert is sent, so none fails
            /\ LET ids == MintIds(nextUuid, documents)
                   re == RemoteResp(fe)
                   ru == PointsResp(cons[s].name, fu)
                   dbn == UpsertEffect(cons[s].name, ru, PointsOf(ids, documents))
               IN
               /\ nextUuid' = nextUuid + Len(documents)
               /\ IF re # "ok"
                  THEN /\ last' = Raised(s, "add_documents", documents, re,
                                         <<Call("embed_documents", re)>>,
                                         Len(documents), FALSE)
                       /\ UNCHANGED <<db, issued>>
                  ELSE IF ru # "ok"
                  THEN /\ last' = Raised(s, "add_documents", documents, ru,
                                         <<Call("embed_documents", re), Call("upsert", ru)>>,
                                         Len(documents), FALSE)
                       /\ UNCHANGED <<db, issued>>
                  ELSE /\ last' = Returned(s, "add_documents", documents, ids,
                                           <<Call("embed_documents", re), Call("upsert", ru)>>,
                                           Len(documents), dbn # db)
                       /\ db' = dbn
                       /\ issued' = issued \cup Range(ids)
    /\ UNCHANGED <<pc, cons, provisioned, localVars>>

Doc(p) == [id |-> p.id, page_content |-> p.payload]

ScoredDoc(p, qv) == [id |-> p.id, page_content |-> p.payload, score |-> Score(p.vector, qv)]

\* vector_store.similarity_search / similarity_search_with_score: one call
\* embeds the query, one queries the collection for the k nearest points.
SimilaritySearch(s, op, query, k, fe, fq, scored) ==
    /\ pc[s] = "ready"
    /\ fe # "none" => fq = "none"            \* no query is sent, so none fails
    /\ LET kk == KOf(k)
           re == RemoteResp(fe)
           rq == PointsResp(cons[s].name, fq)
           qv == Embed(query)
       IN
       IF re # "ok"
       THEN last' = Raised(s, op, <<query, k>>, re, <<Call("embed_query", re)>>, 0, FALSE)
       ELSE IF rq # "ok"
       THEN last' = Raised(s, op, <<query, k>>, rq,
                           <<Call("embed_query", re), Call("query_points", rq)>>, 0, FALSE)
       ELSE \E S \in TopK(db[cons[s].name].points, qv, kk) :
              last' = Returned(s, op, <<query, k>>,
                               IF scored THEN {ScoredDoc(p, qv) : p \in S}
                               ELSE {Doc(p) : p \in S},
                               <<Call("embed_query", re), Call("query_points", rq)>>,
                               0, FALSE)
    /\ UNCHANGED <<db, pc, cons, nextUuid, issued, provisioned, localVars>>

Search(s, query, k, fe, fq) ==
    SimilaritySearch(s, "search", query, k, fe, fq, FALSE)

SearchWithScores(s, query, k, fe, fq) ==
    SimilaritySearch(s, "search_with_scores", query, k, fe, fq, TRUE)

\* get_retriever: local, no remote call.
GetRetriever(s, k) ==
    /\ pc[s] = "ready"
    /\ last' = Returned(s, "get_retriever", k,
                        [search_type |-> "similarity", k |-> KOf(k)], <<>>, 0, FALSE)
    /\ UNCHANGED <<db, pc, cons, nextUuid, issued, provisioned, localVars>>

\* Variant of DeleteCollectionOutcome: the database's error swallowed.
DeleteCollectionSwallows(s, r, calls, changed) ==
    Returned(s, "delete_collection", None, None, calls, 0, changed)

\* delete_collection: no handler around client.delete_collection.
DeleteCollectionOutcome(s, r, calls, changed) ==
    IF r = "ok"
    THEN Returned(s, "delete_collection", None, None, calls, 0, changed)
    ELSE Raised(s, "delete_collection", None, r, calls, 0, changed)

DeleteCollection(s, f, missing) ==
    /\ pc[s] = "ready"
    /\ LET name == cons[s].name
           r == DeleteCollectionResp(name, f, missing)
           dbn == DeleteCollectionEffect(name, r)
       IN
       /\ db' = dbn
       /\ last' = DeleteCollectionOutcome(s, r, <<Call("delete_collection", r)>>, dbn # db)
       /\ provisioned' = [provisioned EXCEPT ![name] = FALSE]
       /\ cons' = [t \in Svc |->
                     IF cons[t].name = name THEN [cons[t] EXCEPT !.disturbed = TRUE]
                     ELSE cons[t]]
    /\ UNCHANGED <<pc, nextUuid, issued, localVars>>

\* get_collection_info: try get_collection / except UnexpectedResponse.
GetCollectionInfoOutcome(s, name, r, calls) ==
    IF r = "ok"
    THEN Returned(s, "get_collection_info", None,
                  [name |-> name, points_count |-> Cardinality(db[name].points),
                   status |-> "green"], calls, 0, FALSE)
    ELSE IF IsUnexpectedResponse(r)
    THEN Returned(s, "get_collection_info", None,
                  [error |-> r, points_count |-> 0, indexed_vectors_count |-> 0,
                   created_at |-> None, status |-> "Collection does not exist"],
                  calls, 0, FALSE)
    ELSE Raised(s, "get_collection_info", None, r, calls, 0, FALSE)

GetCollectionInfo(s, f) ==
    /\ pc[s] = "ready"
    /\ LET r == GetCollectionResp(cons[s].name, f) IN
       last' = GetCollectionInfoOutcome(s, cons[s].name, r, <<Call("get_collection", r)>>)
    /\ UNCHANGED <<db, pc, cons, nextUuid, issued, provisioned, localVars>>

\* Variant of HealthCheckOutcome: except UnexpectedResponse in place of
\* except Exception.
HealthCheckCatchesHttpOnly(s, r, calls) ==
    IF r = "ok" THEN Returned(s, "health_check", None, TRUE, calls, 0, FALSE)
    ELSE IF IsUnexpectedResponse(r)
    THEN Returned(s, "health_check", None, FALSE, calls, 0, FALSE)
    ELSE Raised(s, "health_check", None, r, calls, 0, FALSE)

\* health_check: try get_collections / except Exception.
HealthCheckOutcome(s, r, calls) ==
    IF r = "ok" THEN Returned(s, "health_check", None, TRUE, calls, 0, FALSE)
    ELSE IF IsException(r) THEN Returned(s, "health_check", None, FALSE, calls, 0, FALSE)
    ELSE Raised(s, "health_check", None, r, calls, 0, FALSE)

HealthCheck(s, f) ==
    /\ pc[s] = "ready"
    /\ LET r == RemoteResp(f) IN
       last' = HealthCheckOutcome(s, r, <<Call("get_collections", r)>>)
    /\ UNCHANGED <<db, pc, cons, nextUuid, issued, provisioned, localVars>>

----------------------------------------------------------------------------
(* DocumentProcessor *)

SUPPORTED_EXTENSIONS == {".pdf", ".txt", ".csv"}

\* Path(filename).suffix.lower() over the file names of the model.
Lower(x) ==
    CASE x = ".TXT" -> ".txt"
      [] x = ".PDF" -> ".pdf"
      [] OTHER -> x

Filenames == {[stem |-> "report", suffix |-> ".csv"],
              [stem |-> "notes", suffix |-> ".TXT"],
              [stem |-> "paper", suffix |-> ".pdf"],
              [stem |-> "setup", suffix |-> ".exe"],
              [stem |-> "README", suffix |-> ""]}

Extension(filename) == Lower(filename.suffix)

\* The steps of load_from_upload at which the environment can fail.
UploadFaults == {"none", "create", "read", "write", "load", "metadata"}

TmpPath(id, ext) == [stem |-> <<"tmp", id>>, suffix |-> ext]

\* load_file -> load_pdf / load_txt / load_csv: n documents, each with the
\* path it was loaded from as its source.
LoadFile(path, n) ==
    IF Extension(path) \notin SUPPORTED_EXTENSIONS
    THEN [result |-> "raised", error |-> "ValueError", documents |-> <<>>]
    ELSE [result |-> "returned", error |-> None,
          documents |-> [i \in 1..n |-> [page_content |-> i, source |-> path]]]

SetSource(documents, filename) ==
    [i \in 1..Len(documents) |-> [documents[i] EXCEPT !.source = filename]]

\* created is the temporary file the call created, 0 when it created none.
NoUpload == [filename |-> None, result |-> None, value |-> None, error |-> None,
             created |-> 0, fault |-> None]

UploadDone(filename, fault, result, value, error, created) ==
    [filename |-> filename, result |-> result, value |-> value, error |-> error,
     created |-> created, fault |-> fault]

\* load_from_upload, the whole call: n is the number of documents the loader
\* finds in the upload, fault the step that fails.
LoadFromUpload(filename, n, fault) ==
    LET ext == Extension(filename)
        id == nextTmp + 1
        path == TmpPath(id, ext)
        loaded == LoadFile(path, n)
    IN
    /\ UNCHANGED <<storeVars, embedVars>>
    /\ IF ext \notin SUPPORTED_EXTENSIONS
       THEN /\ up' = UploadDone(filename, "none", "raised", None, "ValueError", 0)
            /\ UNCHANGED <<tmpfiles, nextTmp>>
       ELSE IF fault = "create"
       THEN /\ up' = UploadDone(filename, fault, "raised", None, "OSError", 0)
            /\ UNCHANGED <<tmpfiles, nextTmp>>
       ELSE
         /\ nextTmp < MaxTmp
         /\ nextTmp' = id
         /\ IF fault \in {"read", "write"}
            \* the with block closes the file; delete=False leaves it on disk
            THEN /\ up' = UploadDone(filename, fault, "raised", None, "OSError", id)
                 /\ tmpfiles' = tmpfiles \cup {id}
            \* from here on inside try/finally: unlink(missing_ok=True)
            ELSE IF fault = "load"
            THEN /\ up' = UploadDone(filename, fault, "raised", None, "LoaderError", id)
                 /\ tmpfiles' = tmpfiles \ {id}
            ELSE IF loaded.result = "raised"
            THEN /\ up' = UploadDone(filename, "none", "raised", None, loaded.error, id)
                 /\ tmpfiles' = tmpfiles \ {id}
            ELSE IF fault = "metadata" /\ n > 0
            THEN /\ up' = UploadDone(filename, fault, "raised", None, "TypeError", id)
                 /\ tmpfiles' = tmpfiles \ {id}
            ELSE /\ up' = UploadDone(filename, "none", "returned",
                                     SetSource(loaded.documents, filename), None, id)
                 /\ tmpfiles' = tmpfiles \ {id}

NextUpload ==
    \E filename \in Filenames, n \in 0..MaxDocs, fault \in UploadFaults :
        LoadFromUpload(filename, n, fault)

----------------------------------------------------------------------------
(* EmbeddingService *)

\* Names bound at module level in embeddings.py.
EmbeddingsGlobals == {"lru_cache", "OpenAIEmbeddings", "get_settings", "get_logger",
                      "logger", "get_embeddings", "EmbeddingService"}

\* Names bound in the frame of each method when its logging line runs.
EmbedQueryLocals == {"self", "text", "embedding_query"}
EmbedDocumentsLocals == {"self", "texts", "embeddings_document"}

\* Python's name resolution: a name neither local nor global (nor builtin)
\* raises NameError.
Bound(name, locals) == name \in locals \cup EmbeddingsGlobals

NoEmbedCall == [op |-> None, arg |-> None, remote |-> None, produced |-> None,
                result |-> None, value |-> None, error |-> None]

EmbedDone(op, arg, remote, produced, result, value, error) ==
    [op |-> op, arg |-> arg, remote |-> remote, produced |-> produced,
     result |-> result, value |-> value, error |-> error]

\* get_embeddings under lru_cache, called by EmbeddingService.__init__.
NewEmbeddingService ==
    /\ emClient = None
    /\ emClient' = "client"
    /\ UNCHANGED <<em, emCalls, storeVars, uploadVars>>

\* A method of EmbeddingService: the remote call, the logging line that reads
\* the name logged, the return of the name returned.
EmbedMethod(op, arg, produced, f, locals, logged, returned) ==
    /\ emClient # None
    /\ emCalls < MaxCalls
    /\ emCalls' = emCalls + 1
    /\ LET r == RemoteResp(f) IN
       em' = IF r # "ok"
             THEN EmbedDone(op, arg, r, None, "raised", None, r)
             ELSE IF ~Bound(logged, locals)
             THEN EmbedDone(op, arg, r, produced, "raised", None, "NameError")
             ELSE IF ~Bound(returned, locals)
             THEN EmbedDone(op, arg, r, produced, "raised", None, "NameError")
             ELSE EmbedDone(op, arg, r, produced, "returned", produced, None)
    /\ UNCHANGED <<emClient, storeVars, uploadVars>>

EmbedQuery(text, f) ==
    EmbedMethod("embed_query", text, Embed(text), f,
                EmbedQueryLocals, "embedding", "embedding_query")

EmbedDocuments(texts, f) ==
    EmbedMethod("embed_documents", texts, [i \in 1..Len(texts) |-> Embed(texts[i])], f,
                EmbedDocumentsLocals, "embeddings", "embeddings_document")

NextEmbed ==
    \/ NewEmbeddingService
    \/ \E text \in Texts, f \in EmbedFault : EmbedQuery(text, f)
    \/ \E texts \in Batches, f \in EmbedFault : EmbedDocuments(texts, f)

----------------------------------------------------------------------------
(* The store's specification: two service slots over one database *)

InitStore ==
    /\ db = [n \in Names |-> AbsentCollection]
    /\ pc = [s \in Svc |-> "none"]
    /\ cons = [s \in Svc |-> NoCons]
    /\ nextUuid = 0
    /\ last = NoCall
    /\ issued = {}
    /\ provisioned = [n \in Names |-> FALSE]

InitUpload ==
    /\ up = NoUpload
    /\ tmpfiles = {}
    /\ nextTmp = 0

InitEmbed ==
    /\ em = NoEmbedCall
    /\ emClient = None
    /\ emCalls = 0

Init == InitStore /\ InitUpload /\ InitEmbed

Ks == {0, 1}
DupModes == {"reject", "noop"}
MissingModes == {"error", "false"}

\* One caller using every operation of a service.
NextStore ==
    \/ Construct(Caller, "")
    \/ \E f \in Fault : Probe(Caller, f)
    \/ \E f \in Fault, dup \in DupModes : Create(Caller, f, dup)
    \/ \E d \in Batches, fe \in EmbedFault, fu \in Fault : AddDocuments(Caller, d, fe, fu)
    \/ \E q \in Texts, k \in Ks, fe \in EmbedFault, fq \in Fault : Search(Caller, q, k, fe, fq)
    \/ \E q \in Texts, k \in Ks, fe \in EmbedFault, fq \in Fault :
            SearchWithScores(Caller, q, k, fe, fq)
    \/ \E k \in Ks : GetRetriever(Caller, k)
    \/ \E f \in Fault, m \in MissingModes : DeleteCollection(Caller, f, m)
    \/ \E f \in Fault : GetCollectionInfo(Caller, f)
    \/ \E f \in Fault : HealthCheck(Caller, f)

Next == NextStore

\* Concurrent callers constructing services and deleting collections.
NextProvision ==
    \/ \E s \in Svc, arg \in NameArgs : Construct(s, arg)
    \/ \E s \in Svc, f \in Fault : Probe(s, f)
    \/ \E s \in Svc, f \in Fault, dup \in DupModes : Create(s, f, dup)
    \/ \E s \in Svc, f \in Fault, m \in MissingModes : DeleteCollection(s, f, m)

SpecProvision == Init /\ [][NextProvision]_vars

SpecUpload == Init /\ [][NextUpload]_vars

SpecEmbed == Init /\ [][NextEmbed]_vars

Spec == Init /\ [][Next]_vars

----------------------------------------------------------------------------
(* Properties *)

FailedCalls(c) == {i \in 1..Len(c.calls) : c.calls[i].resp # "ok"}

Finished(s) == cons[s].outcome \in {"returned", "raised"}

\* C1: add_documents called with an empty list returns an empty list, mints no
\* identifier, issues no embedding call and no database call, and leaves the
\* collections as they were.
C1_EmptyAddIsNoOp ==
    (last.op = "add_documents" /\ last.arg = <<>>) =>
        /\ last.result = "returned"
        /\ last.value = <<>>
        /\ last.calls = <<>>
        /\ last.minted = 0
        /\ ~last.changed

\* C1 witness: an empty add_documents returned on a collection that holds points.
C1_Witness ==
    /\ last.op = "add_documents"
    /\ last.arg = <<>>
    /\ last.result = "returned"
    /\ db[qdrant_collection_name].points # {}

\* C2: a successful add_documents of n >= 1 chunks returns n identifiers, one
\* per chunk, pairwise distinct and distinct from every identifier an earlier
\* call returned.
C2_FreshIdentifiers ==
    [][(nextUuid' # nextUuid /\ last'.result = "returned") =>
          LET ids == last'.value IN
          /\ Len(ids) = Len(last'.arg)
          /\ Len(ids) >= 1
          /\ \A i, j \in 1..Len(ids) : i # j => ids[i] # ids[j]
          /\ Range(ids) \cap issued = {}]_vars

\* C2 witness: a successful add_documents stored a chunk whose content an
\* earlier call had already stored, under another identifier.
C2_Witness ==
    /\ last.op = "add_documents"
    /\ last.result = "returned"
    /\ Len(last.arg) >= 1
    /\ \E p, q \in db[qdrant_collection_name].points :
          /\ p.payload = q.payload
          /\ p.id # q.id
          /\ q.id \in Range(last.value)
          /\ p.id \notin Range(last.value)

\* C3: a construction that starts after a construction on the same collection
\* name returned, with no delete_collection since, and whose probe the database
\* answers, finds the collection Exists and issues no create_collection call.
C3_SecondConstructionFindsExists ==
    \A s \in Svc :
        (/\ cons[s].second
         /\ ~cons[s].disturbed
         /\ cons[s].probe \in {"Exists", "Absent"}) =>
            /\ cons[s].probe = "Exists"
            /\ cons[s].creates = 0

\* C3 witness: such a second construction has returned.
C3_Witness ==
    \E s \in Svc :
        /\ cons[s].second
        /\ ~cons[s].disturbed
        /\ cons[s].probe = "Exists"
        /\ cons[s].creates = 0
        /\ cons[s].outcome = "returned"

\* C4: get_collection_info never raises; whenever the lookup fails it returns
\* status "Collection does not exist" and points count 0.
C4_InfoNeverRaises ==
    last.op = "get_collection_info" =>
        /\ last.result = "returned"
        /\ FailedCalls(last) # {} =>
              /\ last.value.status = "Collection does not exist"
              /\ last.value.points_count = 0

\* C5: health_check never raises and returns TRUE exactly when the
\* get_collections round-trip succeeded.
C5_HealthCheckIffRoundTrip ==
    last.op = "health_check" =>
        /\ last.result = "returned"
        /\ Len(last.calls) = 1
        /\ last.value = (last.calls[1].resp = "ok")

\* C5 witness: health_check returned FALSE on a failure that is not an
\* UnexpectedResponse.
C5_Witness ==
    /\ last.op = "health_check"
    /\ last.result = "returned"
    /\ last.calls[1].resp = "net"
    /\ last.value = FALSE

\* C6: once load_from_upload has created its temporary file, the file is gone
\* when the call returns or raises.
C6_NoTempFileLeak ==
    up.created # 0 => up.created \notin tmpfiles

\* C7: two constructions on one collection name that both started with the
\* collection Absent, met no fault and no delete_collection, leave the
\* collection Exists once both have finished.
C7_RaceEndsExists ==
    \A s, t \in Svc :
        (/\ s # t
         /\ Finished(s) /\ Finished(t)
         /\ cons[s].name = cons[t].name
         /\ cons[s].startAbsent /\ cons[t].startAbsent
         /\ ~cons[s].faulted /\ ~cons[t].faulted
         /\ ~cons[s].disturbed /\ ~cons[t].disturbed) =>
            db[cons[s].name].exists

\* C7 witness: both constructions probed Absent and both issued a create call.
C7_Witness ==
    \E s, t \in Svc :
        /\ s # t
        /\ Finished(s) /\ Finished(t)
        /\ cons[s].name = cons[t].name
        /\ cons[s].startAbsent /\ cons[t].startAbsent
        /\ ~cons[s].faulted /\ ~cons[t].faulted
        /\ ~cons[s].disturbed /\ ~cons[t].disturbed
        /\ cons[s].probe = "Absent" /\ cons[t].probe = "Absent"
        /\ cons[s].creates = 1 /\ cons[t].creates = 1
        /\ db[cons[s].name].exists

\* C8: in add_documents, search, search_with_scores and delete_collection a
\* failed embedding or database call reaches the caller as that error, with no
\* return value.
C8_ErrorsPropagate ==
    (/\ last.op \in {"add_documents", "search", "search_with_scores", "delete_collection"}
     /\ FailedCalls(last) # {}) =>
        /\ last.result = "raised"
        /\ last.value = None
        /\ \A i \in FailedCalls(last) : last.error = last.calls[i].resp

\* C8 witness: delete_collection on a collection already deleted raised the
\* database's not-found error.
C8_Witness ==
    /\ last.op = "delete_collection"
    /\ last.calls[1].resp = "notfound"
    /\ last.result = "raised"
    /\ last.error = "notfound"

\* C9: a construction issues a create_collection call exactly when its probe
\* found the collection Absent, and the call uses size 1536 and cosine distance.
C9_CreateIffAbsent ==
    \A s \in Svc :
        /\ cons[s].creates > 0 => cons[s].probe = "Absent"
        /\ (cons[s].probe = "Absent" /\ Finished(s)) => cons[s].creates = 1
        /\ cons[s].creates > 0 =>
              (cons[s].size = VectorSize /\ cons[s].distance = DistanceCosine)

\* C10: when the remote embedding call succeeds, embed_query and
\* embed_documents return what that call produced and do not raise.
C10_EmbedReturnsRemoteResult ==
    em.remote = "ok" =>
        /\ em.result = "returned"
        /\ em.value = em.produced

====
